---------------------------- MODULE Spec2Model ----------------------------
(***************************************************************************)
(* Model of @dbtchain/gov-sdk: the configuration module (config.ts, kept   *)
(* in src/src/department.ts from line 185), the transaction helper         *)
(* (utils.ts) and the DBTC, Department and Agency wrapper modules.         *)
(*                                                                         *)
(* The module state of config.ts (_config, _provider, CONTRACT_ADDRESSES)  *)
(* and the process environment are the variables.  A caller runs one SDK   *)
(* operation at a time; `op` describes the operation that ran last or is   *)
(* awaiting a promise.  Synchronous functions run in one step; an async    *)
(* wrapper runs its synchronous prefix in one step and then one step per   *)
(* awaited promise.                                                        *)
(***************************************************************************)
EXTENDS Integers, Sequences, FiniteSets, TLC

VARIABLES config, provider, addresses, env, op

vars == <<config, provider, addresses, env, op>>

-----------------------------------------------------------------------------
(* JavaScript values *)

\* `undefined` (a missing argument, property or environment variable)
UNDEF == "undefined"

\* `null` (_config and _provider before they are set, a missing receipt)
Null == [null |-> TRUE]

\* JavaScript truthiness of a string-or-undefined value: !x is true for
\* undefined and for the empty string
Truthy(x) == x # UNDEF /\ x # ""

-----------------------------------------------------------------------------
(* config.ts *)

ChainModes == {"testnet", "mainnet"}

NETWORKS ==
  [testnet |-> [rpcUrl |-> "https://amoy.dbtc.bayanichain.io",
                chainId |-> 80002, chainName |-> "Polygon Amoy"],
   mainnet |-> [rpcUrl |-> "https://polygon.dbtc.bayanichain.io",
                chainId |-> 137, chainName |-> "Polygon"]]

\* the bundled value of CONTRACT_ADDRESSES
CONTRACT_ADDRESSES ==
  [testnet |-> [dbtc |-> "0x8972bc4dea1d2760E3f5b0a90675Dde15506aA8E",
                budgetProposal |-> "0xf73aB0E2069029c881EFB825f74aC602472d3ace"],
   mainnet |-> [dbtc |-> "", budgetProposal |-> ""]]

ErrChainMode == "chainMode must be 'testnet' or 'mainnet'"
ErrApiKey == "apiKey is required. Contact DBTC to obtain your API key."
ErrNotConfigured == "SDK not configured"
ErrNoPrivateKey == "No private key provided"
ErrDBTCAddress == "DBTC contract address not configured"
ErrTooLong == "String too long for bytes32 (max 31 characters)"
ErrEncode == "bytes32 string must be less than 32 bytes"
ErrNoReceipt == "Transaction failed - no receipt"
ErrSubmit == "transaction submission rejected"
ErrWait == "transaction wait rejected"
ErrQuery == "contract query rejected"
ErrTypeError == "TypeError: cannot set properties of undefined"
NoErr == "none"

\* The module state a function runs against, threaded through the calls it
\* makes: _config, _provider, CONTRACT_ADDRESSES, and two observations of the
\* run (whether process.env was read, whether getSigner was called).
Ctx(c, p, a) ==
  [config |-> c, provider |-> p, addresses |-> a,
   envRead |-> FALSE, signerCalled |-> FALSE]

\* a function's outcome: the error thrown (NoErr when it returns), the
\* module state it leaves, and the value returned
Ret(S, v) == [err |-> NoErr, S |-> S, val |-> v]
Throw(S, e) == [err |-> e, S |-> S, val |-> Null]

\* `r` unless it threw, and then what F makes of it: one statement after
\* another, the first throw ending the function
Then(r, F(_)) == IF r.err # NoErr THEN r ELSE F(r)

\* the object configure stores in _config
Stored(c) ==
  [chainMode |-> c.chainMode, apiKey |-> c.apiKey, privateKey |-> c.privateKey]

\* mutant of configure: the new configuration is stored before it is
\* validated
configure_StoreFirst(S, c) ==
  IF ~Truthy(c.chainMode) \/ c.chainMode \notin ChainModes
    THEN Throw([S EXCEPT !.config = Stored(c), !.provider = Null], ErrChainMode)
  ELSE IF ~Truthy(c.apiKey)
    THEN Throw([S EXCEPT !.config = Stored(c), !.provider = Null], ErrApiKey)
  ELSE Ret([S EXCEPT !.config = Stored(c), !.provider = Null], UNDEF)

\* configure(config)
configure(S, c) ==
  IF ~Truthy(c.chainMode) \/ c.chainMode \notin ChainModes
    THEN Throw(S, ErrChainMode)
  ELSE IF ~Truthy(c.apiKey)
    THEN Throw(S, ErrApiKey)
  ELSE Ret([S EXCEPT !.config = Stored(c), !.provider = Null], UNDEF)

\* the configuration getConfig reads from process.env
EnvConfig ==
  [chainMode |-> env.DBTC_CHAIN_MODE, apiKey |-> env.DBTC_API_KEY,
   privateKey |-> env.PRIVATE_KEY]

\* mutant of getConfig: the environment is consulted on every call
getConfig_AlwaysEnv(S) ==
  IF Truthy(EnvConfig.chainMode) /\ Truthy(EnvConfig.apiKey)
    THEN Then(configure([S EXCEPT !.envRead = TRUE], EnvConfig),
              LAMBDA r : Ret(r.S, r.S.config))
  ELSE IF S.config # Null THEN Ret([S EXCEPT !.envRead = TRUE], S.config)
  ELSE Throw([S EXCEPT !.envRead = TRUE], ErrNotConfigured)

\* getConfig()
getConfig(S) ==
  IF S.config = Null
    THEN IF Truthy(EnvConfig.chainMode) /\ Truthy(EnvConfig.apiKey)
           THEN Then(configure([S EXCEPT !.envRead = TRUE], EnvConfig),
                     LAMBDA r : Ret(r.S, r.S.config))
         ELSE Throw([S EXCEPT !.envRead = TRUE], ErrNotConfigured)
  ELSE Ret(S, S.config)

\* getNetworkConfig()
getNetworkConfig(S) ==
  Then(getConfig(S), LAMBDA r : Ret(r.S, NETWORKS[r.val.chainMode]))

\* getRpcUrl(): `${network.rpcUrl}?apiKey=${config.apiKey}`
getRpcUrl(S) ==
  Then(getConfig(S),
       LAMBDA r : Ret(r.S, [base |-> NETWORKS[r.val.chainMode].rpcUrl,
                            apiKey |-> r.val.apiKey]))

\* _provider = new ethers.JsonRpcProvider(rpcUrl, network.chainId)
JsonRpcProvider(rpcUrl, chainId) == [rpcUrl |-> rpcUrl, chainId |-> chainId]

\* getProvider()
getProvider(S) ==
  IF S.provider = Null
    THEN Then(getNetworkConfig(S), LAMBDA n :
           Then(getRpcUrl(n.S), LAMBDA u :
             Ret([u.S EXCEPT !.provider = JsonRpcProvider(u.val, n.val.chainId)],
                 JsonRpcProvider(u.val, n.val.chainId))))
  ELSE Ret(S, S.provider)

\* new ethers.Wallet(key, getProvider()), after the check that there is a key
Wallet(S, key) ==
  IF ~Truthy(key) THEN Throw(S, ErrNoPrivateKey)
  ELSE Then(getProvider(S),
            LAMBDA p : Ret(p.S, [key |-> key, provider |-> p.val]))

\* mutant of getSigner: the configured default key wins over the argument
getSigner_ConfigFirst(S, privateKey) ==
  Then(getConfig([S EXCEPT !.signerCalled = TRUE]),
       LAMBDA c : Wallet(c.S, IF Truthy(c.val.privateKey) THEN c.val.privateKey
                              ELSE privateKey))

\* getSigner(privateKey?): key = privateKey || getConfig().privateKey
getSigner(S, privateKey) ==
  IF Truthy(privateKey)
    THEN Wallet([S EXCEPT !.signerCalled = TRUE], privateKey)
  ELSE Then(getConfig([S EXCEPT !.signerCalled = TRUE]),
            LAMBDA c : Wallet(c.S, c.val.privateKey))

\* getContractAddresses()
getContractAddresses(S) ==
  Then(getConfig(S), LAMBDA r : Ret(r.S, r.S.addresses[r.val.chainMode]))

\* mode = chainMode || getConfig().chainMode
modeOf(S, chainMode) ==
  IF Truthy(chainMode) THEN Ret(S, chainMode)
  ELSE Then(getConfig(S), LAMBDA c : Ret(c.S, c.val.chainMode))

\* (CONTRACT_ADDRESSES[mode] as any)[field] = value when value is truthy;
\* CONTRACT_ADDRESSES[mode] is undefined for an unknown mode, and assigning
\* to a property of it throws
assign(r, mode, field, value) ==
  IF r.err # NoErr \/ ~Truthy(value) THEN r
  ELSE IF mode \notin DOMAIN r.S.addresses THEN Throw(r.S, ErrTypeError)
  ELSE Ret([r.S EXCEPT !.addresses[mode][field] = value], UNDEF)

\* mutant of setContractAddresses: a field that was not passed is cleared
setContractAddresses_Overwrite(S, a, chainMode) ==
  Then(modeOf(S, chainMode), LAMBDA m :
    IF m.val \notin DOMAIN m.S.addresses THEN Throw(m.S, ErrTypeError)
    ELSE Ret([m.S EXCEPT !.addresses[m.val] =
                [dbtc |-> IF Truthy(a.dbtc) THEN a.dbtc ELSE "",
                 budgetProposal |-> IF Truthy(a.budgetProposal)
                                      THEN a.budgetProposal ELSE ""]],
             UNDEF))

\* setContractAddresses(addresses, chainMode?)
setContractAddresses(S, a, chainMode) ==
  Then(modeOf(S, chainMode), LAMBDA m :
    assign(assign(Ret(m.S, UNDEF), m.val, "dbtc", a.dbtc),
           m.val, "budgetProposal", a.budgetProposal))

\* getChainMode()
getChainMode(S) == Then(getConfig(S), LAMBDA r : Ret(r.S, r.val.chainMode))

\* isTestnet()
isTestnet(S) ==
  Then(getConfig(S), LAMBDA r : Ret(r.S, r.val.chainMode = "testnet"))

\* isMainnet()
isMainnet(S) ==
  Then(getConfig(S), LAMBDA r : Ret(r.S, r.val.chainMode = "mainnet"))

-----------------------------------------------------------------------------
(* utils.ts *)

\* A string is a sequence of Unicode code points below 2048, so that every
\* character is one UTF-16 code unit (str.length = Len) and one or two UTF-8
\* bytes.
MaxChars == 31
Bytes32Len == 32

\* the UTF-8 encoding of one code point (ethers toUtf8Bytes)
Utf8(cp) ==
  IF cp < 128 THEN <<cp>>
  ELSE <<192 + (cp \div 64), 128 + (cp % 64)>>

RECURSIVE toUtf8Bytes(_)
toUtf8Bytes(str) ==
  IF str = <<>> THEN <<>>
  ELSE Utf8(Head(str)) \o toUtf8Bytes(Tail(str))

\* ethers.encodeBytes32String: the UTF-8 bytes, zero-padded on the right to
\* 32 bytes; it throws when there are more than 31 bytes
zeroPadBytes(bytes) == bytes \o [i \in 1..(Bytes32Len - Len(bytes)) |-> 0]

encodeBytes32String(str) ==
  IF Len(toUtf8Bytes(str)) > MaxChars
    THEN [err |-> ErrEncode, val |-> <<>>]
  ELSE [err |-> NoErr, val |-> zeroPadBytes(toUtf8Bytes(str))]

\* mutant of stringToBytes32: the length is not tested before encoding
stringToBytes32_NoLengthCheck(str) == encodeBytes32String(str)

\* stringToBytes32(str)
stringToBytes32(str) ==
  IF Len(str) > MaxChars
    THEN [err |-> ErrTooLong, val |-> <<>>]
  ELSE encodeBytes32String(str)

\* prepareProposalData(data): both identifiers are converted, prexcFpapId
\* first; the first conversion that throws ends the call
prepareProposalData(data) ==
  IF stringToBytes32(data.prexcFpapId).err # NoErr
    THEN [err |-> stringToBytes32(data.prexcFpapId).err, val |-> Null]
  ELSE IF stringToBytes32(data.uacsObjCode).err # NoErr
    THEN [err |-> stringToBytes32(data.uacsObjCode).err, val |-> Null]
  ELSE [err |-> NoErr,
        val |-> [fiscalYear |-> 0,
                 departmentCode |-> [i \in 1..Bytes32Len |-> 0],
                 agencyCode |-> [i \in 1..Bytes32Len |-> 0],
                 prexcFpapId |-> stringToBytes32(data.prexcFpapId).val,
                 uacsObjCode |-> stringToBytes32(data.uacsObjCode).val,
                 amount |-> data.amount]]

\* mutant of waitForTransaction: a missing receipt is not treated as a
\* failure
waitForTransaction_NoCheck(w) ==
  IF w.rejected THEN [err |-> ErrWait, val |-> Null]
  ELSE IF w.receipt = Null
    THEN [err |-> NoErr,
          val |-> [txHash |-> UNDEF, blockNumber |-> 0, gasUsed |-> 0,
                   success |-> FALSE, logs |-> <<>>]]
  ELSE [err |-> NoErr,
        val |-> [txHash |-> w.receipt.hash,
                 blockNumber |-> w.receipt.blockNumber,
                 gasUsed |-> w.receipt.gasUsed,
                 success |-> (w.receipt.status = 1),
                 logs |-> w.receipt.logs]]

\* waitForTransaction(tx), given how tx.wait() settles: it rejects, or it
\* resolves with null or with a receipt
waitForTransaction(w) ==
  IF w.rejected THEN [err |-> ErrWait, val |-> Null]
  ELSE IF w.receipt = Null THEN [err |-> ErrNoReceipt, val |-> Null]
  ELSE [err |-> NoErr,
        val |-> [txHash |-> w.receipt.hash,
                 blockNumber |-> w.receipt.blockNumber,
                 gasUsed |-> w.receipt.gasUsed,
                 success |-> (w.receipt.status = 1),
                 logs |-> w.receipt.logs]]

-----------------------------------------------------------------------------
(* types.ts *)

\* getPhaseName(phase): names[phase] ?? 'Unknown'
getPhaseName(phase) ==
  CASE phase = 0 -> "Pre-Budget"
    [] phase = 1 -> "Budget Call"
    [] phase = 2 -> "Technical Review"
    [] phase = 3 -> "NEP Consolidation"
    [] phase = 4 -> "GAB Separate (House & Senate)"
    [] phase = 5 -> "GAB Bicameral"
    [] phase = 6 -> "GAA Enactment"
    [] OTHER -> "Unknown"

\* getStatusName(status): names[status] ?? 'Unknown'
getStatusName(status) ==
  CASE status = 0 -> "Draft"
    [] status = 1 -> "Submitted"
    [] status = 2 -> "Under Review"
    [] status = 3 -> "Approved"
    [] status = 4 -> "Revised"
    [] status = 5 -> "Amended"
    [] status = 6 -> "Rejected"
    [] status = 7 -> "Enacted"
    [] OTHER -> "Unknown"

-----------------------------------------------------------------------------
(* Contract instances and event logs *)

\* The events of each contract interface that the wrappers name; in the DBTC
\* and Department interfaces OwnershipTransferred stands for the other
\* events of the interface.
ABI_EVENTS ==
  [DBTC |-> {"DepartmentAdded", "OwnershipTransferred"},
   Department |-> {"AgencyAdded", "OwnershipTransferred"},
   Agency |-> {"ProposalSubmitted", "ProposalRevised", "ProposalAmended"}]

\* contract.interface.parseLog({topics, data}): null when no event of the
\* interface has the log's topic, a throw when the log's data does not decode
\* under that event, and otherwise the event's name and arguments.  `named`
\* is the argument the wrapper reads by name (undefined when the event has
\* no argument of that name) and `second` is args[1].
parseLog(abi, log) ==
  IF log.topic \notin ABI_EVENTS[abi]
    THEN [throws |-> FALSE, parsed |-> Null]
  ELSE IF ~log.wellFormed
    THEN [throws |-> TRUE, parsed |-> Null]
  ELSE [throws |-> FALSE,
        parsed |-> [name |-> log.topic,
                    args |-> [named |-> log.named, second |-> log.second]]]

\* The expression a wrapper assigns from the parsed event:
\* parsed.args.deptContract || parsed.args[1] (likewise agencyContract) for
\* the address events, parsed.args.tokenId / newTokenId for the proposal
\* events.
extractArg(eventName, args) ==
  IF eventName \in {"DepartmentAdded", "AgencyAdded"}
    THEN IF Truthy(args.named) THEN args.named ELSE args.second
  ELSE args.named

\* the value the wrapper starts from: '' for an address, BigInt(0) for a
\* token id
defaultValue(eventName) ==
  IF eventName \in {"DepartmentAdded", "AgencyAdded"} THEN "" ELSE "0"

\* parsed?.name === eventName, for a parseLog that did not throw
isNamed(p, eventName) ==
  ~p.throws /\ p.parsed # Null /\ p.parsed.name = eventName

\* mutant of scanStep: no break after the match, so the last matching log
\* wins and every log is consulted
scanStep_NoBreak(p, eventName, i, acc) ==
  IF isNamed(p, eventName)
    THEN [value |-> extractArg(eventName, p.parsed.args), consulted |-> i,
          break |-> FALSE]
  ELSE [acc EXCEPT !.consulted = i]

\* One turn of the loop body, on the outcome p of parseLog for log i: the
\* value is assigned and the loop left on a match; a throw is caught and
\* any other log is passed over.
scanStep(p, eventName, i, acc) ==
  IF isNamed(p, eventName)
    THEN [value |-> extractArg(eventName, p.parsed.args), consulted |-> i,
          break |-> TRUE]
  ELSE [acc EXCEPT !.consulted = i]

\* The loop `for (const log of result.logs) { try { ... break } catch {} }`
\* from log i on: acc holds the value extracted so far and the number of
\* logs handed to parseLog.
RECURSIVE scanLogs(_, _, _, _, _)
scanLogs(abi, eventName, logs, i, acc) ==
  IF i > Len(logs) \/ acc.break THEN acc
  ELSE scanLogs(abi, eventName, logs, i + 1,
                scanStep(parseLog(abi, logs[i]), eventName, i, acc))

\* runner = signer || getProvider(); signer is Null when not passed
runnerOf(S, signer) == IF signer # Null THEN Ret(S, signer) ELSE getProvider(S)

\* new Contract(address, abi, runner)
Contract(S, address, abi, signer) ==
  Then(runnerOf(S, signer),
       LAMBDA r : Ret(r.S, [address |-> address, abi |-> abi, runner |-> r.val]))

\* mutant of dbtcAddressOf: the bundled address wins over the argument
dbtcAddressOf_BundledFirst(S, dbtcAddress) ==
  Then(getContractAddresses(S),
       LAMBDA r : Ret(r.S, IF Truthy(r.val.dbtc) THEN r.val.dbtc
                           ELSE dbtcAddress))

\* address = dbtcAddress || getContractAddresses().dbtc
dbtcAddressOf(S, dbtcAddress) ==
  IF Truthy(dbtcAddress) THEN Ret(S, dbtcAddress)
  ELSE Then(getContractAddresses(S), LAMBDA r : Ret(r.S, r.val.dbtc))

\* getDBTCContract(dbtcAddress?, signer?)
getDBTCContract(S, dbtcAddress, signer) ==
  Then(dbtcAddressOf(S, dbtcAddress), LAMBDA a :
    IF ~Truthy(a.val) THEN Throw(a.S, ErrDBTCAddress)
    ELSE Contract(a.S, a.val, "DBTC", signer))

\* getDepartmentContract(departmentAddress, signer?)
getDepartmentContract(S, departmentAddress, signer) ==
  Contract(S, departmentAddress, "Department", signer)

\* getAgencyContract(agencyAddress, signer?)
getAgencyContract(S, agencyAddress, signer) ==
  Contract(S, agencyAddress, "Agency", signer)

\* a runner that signs is a Wallet (it has a key); a provider has none
IsSigner(runner) == "key" \in DOMAIN runner

-----------------------------------------------------------------------------
(* The wrapper modules dbtc.ts, department.ts and agency.ts *)

\* Each exported wrapper: the module it belongs to, whether it submits a
\* transaction through a signer ("write") or queries through the provider
\* ("read"), the event its log scan looks for ("none" when it returns the
\* transaction result as it is), and whether it converts proposal data
\* before submitting.
DBTC_FUNCTIONS ==
  [addDepartment |->
     [module |-> "dbtc", kind |-> "write", event |-> "DepartmentAdded", prepares |-> FALSE],
   addRegularDepartment |->
     [module |-> "dbtc", kind |-> "write", event |-> "DepartmentAdded", prepares |-> FALSE],
   assignPhaseResponsibility |->
     [module |-> "dbtc", kind |-> "write", event |-> "none", prepares |-> FALSE],
   startBudgetCall |->
     [module |-> "dbtc", kind |-> "write", event |-> "none", prepares |-> FALSE],
   advancePhase |->
     [module |-> "dbtc", kind |-> "write", event |-> "none", prepares |-> FALSE],
   getCurrentPhase |->
     [module |-> "dbtc", kind |-> "read", event |-> "none", prepares |-> FALSE],
   getCurrentFiscalYear |->
     [module |-> "dbtc", kind |-> "read", event |-> "none", prepares |-> FALSE],
   getDepartment |->
     [module |-> "dbtc", kind |-> "read", event |-> "none", prepares |-> FALSE],
   isDepartmentRegistered |->
     [module |-> "dbtc", kind |-> "read", event |-> "none", prepares |-> FALSE],
   getDepartmentCodes |->
     [module |-> "dbtc", kind |-> "read", event |-> "none", prepares |-> FALSE],
   getDepartmentCount |->
     [module |-> "dbtc", kind |-> "read", event |-> "none", prepares |-> FALSE],
   getPhaseResponsibleDepartment |->
     [module |-> "dbtc", kind |-> "read", event |-> "none", prepares |-> FALSE],
   getBudgetProposalContract |->
     [module |-> "dbtc", kind |-> "read", event |-> "none", prepares |-> FALSE],
   getDBTCOwner |->
     [module |-> "dbtc", kind |-> "read", event |-> "none", prepares |-> FALSE]]

DEPARTMENT_FUNCTIONS ==
  [addAgency |->
     [module |-> "department", kind |-> "write", event |-> "AgencyAdded", prepares |-> FALSE],
   setHouseAndSenate |->
     [module |-> "department", kind |-> "write", event |-> "none", prepares |-> FALSE],
   getDepartmentInfo |->
     [module |-> "department", kind |-> "read", event |-> "none", prepares |-> FALSE],
   getAgency |->
     [module |-> "department", kind |-> "read", event |-> "none", prepares |-> FALSE],
   isAgencyRegistered |->
     [module |-> "department", kind |-> "read", event |-> "none", prepares |-> FALSE],
   getAgencyCodes |->
     [module |-> "department", kind |-> "read", event |-> "none", prepares |-> FALSE],
   getMainAgency |->
     [module |-> "department", kind |-> "read", event |-> "none", prepares |-> FALSE],
   getHouseAgency |->
     [module |-> "department", kind |-> "read", event |-> "none", prepares |-> FALSE],
   getSenateAgency |->
     [module |-> "department", kind |-> "read", event |-> "none", prepares |-> FALSE],
   getDepartmentOwner |->
     [module |-> "department", kind |-> "read", event |-> "none", prepares |-> FALSE]]

AGENCY_FUNCTIONS ==
  [submitProposal |->
     [module |-> "agency", kind |-> "write", event |-> "ProposalSubmitted", prepares |-> TRUE],
   reviseProposal |->
     [module |-> "agency", kind |-> "write", event |-> "ProposalRevised", prepares |-> TRUE],
   amendProposal |->
     [module |-> "agency", kind |-> "write", event |-> "ProposalAmended", prepares |-> TRUE],
   submitSeparateGAB |->
     [module |-> "agency", kind |-> "write", event |-> "ProposalSubmitted", prepares |-> TRUE],
   submitJointGAB |->
     [module |-> "agency", kind |-> "write", event |-> "ProposalSubmitted", prepares |-> TRUE],
   addDocumentManager |->
     [module |-> "agency", kind |-> "write", event |-> "none", prepares |-> FALSE],
   removeDocumentManager |->
     [module |-> "agency", kind |-> "write", event |-> "none", prepares |-> FALSE],
   transferAgencyOwnership |->
     [module |-> "agency", kind |-> "write", event |-> "none", prepares |-> FALSE],
   getAgencyInfo |->
     [module |-> "agency", kind |-> "read", event |-> "none", prepares |-> FALSE],
   isDocumentManager |->
     [module |-> "agency", kind |-> "read", event |-> "none", prepares |-> FALSE],
   getDocumentManagers |->
     [module |-> "agency", kind |-> "read", event |-> "none", prepares |-> FALSE]]

WrapperNames ==
  DOMAIN DBTC_FUNCTIONS \cup DOMAIN DEPARTMENT_FUNCTIONS
    \cup DOMAIN AGENCY_FUNCTIONS

Wrapper(f) ==
  IF f \in DOMAIN DBTC_FUNCTIONS THEN DBTC_FUNCTIONS[f]
  ELSE IF f \in DOMAIN DEPARTMENT_FUNCTIONS THEN DEPARTMENT_FUNCTIONS[f]
  ELSE AGENCY_FUNCTIONS[f]

WriteNames == {f \in WrapperNames : Wrapper(f).kind = "write"}
ReadNames == {f \in WrapperNames : Wrapper(f).kind = "read"}
EventNames == {f \in WriteNames : Wrapper(f).event # "none"}

AbiOf(f) ==
  CASE Wrapper(f).module = "dbtc" -> "DBTC"
    [] Wrapper(f).module = "department" -> "Department"
    [] Wrapper(f).module = "agency" -> "Agency"

\* the module's private contract factory, applied to the wrapper's address
\* argument
getContract(S, f, a, signer) ==
  CASE Wrapper(f).module = "dbtc" -> getDBTCContract(S, a.dbtcAddress, signer)
    [] Wrapper(f).module = "department" ->
         getDepartmentContract(S, a.address, signer)
    [] Wrapper(f).module = "agency" -> getAgencyContract(S, a.address, signer)

\* prepareProposalData(data) where the wrapper has proposal data
prepared(f, a, c) ==
  IF Wrapper(f).prepares /\ prepareProposalData(a.data).err # NoErr
    THEN Throw(c.S, prepareProposalData(a.data).err)
  ELSE c

\* A state-changing wrapper up to its first await: getSigner(privateKey),
\* the contract instance, prepareProposalData where the wrapper has proposal
\* data, and then the contract method is invoked on the returned instance.
beginWrite(S, f, a) ==
  Then(getSigner(S, a.privateKey), LAMBDA s :
    Then(getContract(s.S, f, a, s.val), LAMBDA c : prepared(f, a, c)))

\* mutant of beginRead: the query goes through a signer
beginRead_WithSigner(S, f, a) ==
  Then(getSigner(S, UNDEF), LAMBDA s : getContract(s.S, f, a, s.val))

\* A read-only wrapper up to its first await: the contract instance without
\* a signer, and then the contract method is invoked on it.
beginRead(S, f, a) == getContract(S, f, a, Null)

\* the object an event-extracting wrapper returns: { ...result, <extracted> }
withExtracted(result, r) ==
  [result |-> result, scanned |-> TRUE, extracted |-> r.value,
   consulted |-> r.consulted]

\* A state-changing wrapper after `await waitForTransaction(tx)` returned
\* `result`: the log scan where the wrapper has one, and the returned object
\* ({ ...result, <extracted> }, or result itself).
finishWrite(f, contract, result) ==
  IF Wrapper(f).event # "none"
    THEN withExtracted(result,
           scanLogs(contract.abi, Wrapper(f).event, result.logs, 1,
                    [value |-> defaultValue(Wrapper(f).event), consulted |-> 0,
                     break |-> FALSE]))
  ELSE [result |-> result, scanned |-> FALSE, extracted |-> UNDEF,
        consulted |-> 0]

\* ethers.toUtf8String on well-formed one- and two-byte sequences
RECURSIVE toUtf8String(_)
toUtf8String(bytes) ==
  IF bytes = <<>> THEN <<>>
  ELSE IF Head(bytes) < 128 \/ Len(bytes) < 2
    THEN <<Head(bytes)>> \o toUtf8String(Tail(bytes))
  ELSE <<(Head(bytes) - 192) * 64 + (bytes[2] - 128)>>
         \o toUtf8String(Tail(Tail(bytes)))

\* the length ethers.decodeBytes32String keeps: it starts from 31 and drops
\* the zero bytes at the end
RECURSIVE trimmedLength(_, _)
trimmedLength(bytes, length) ==
  IF length > 0 /\ bytes[length] = 0 THEN trimmedLength(bytes, length - 1)
  ELSE length

\* bytes32ToString(bytes32): ethers.decodeBytes32String
bytes32ToString(bytes) ==
  IF Len(bytes) # Bytes32Len
    THEN [err |-> "invalid bytes32 - not 32 bytes long", val |-> <<>>]
  ELSE IF bytes[Bytes32Len] # 0
    THEN [err |-> "invalid bytes32 string - no null terminator", val |-> <<>>]
  ELSE [err |-> NoErr,
        val |-> toUtf8String(SubSeq(bytes, 1, trimmedLength(bytes, MaxChars)))]

-----------------------------------------------------------------------------
(* Inputs *)

\* the longest receipt (number of logs) handed to a state-changing wrapper
\* where the log scan is examined
MaxLogs == 2

\* the longest receipt where the configuration is examined
MaxLogsSDK == 0

Envs ==
  [DBTC_CHAIN_MODE : {UNDEF, "testnet", "mainnet", "devnet"},
   DBTC_API_KEY : {UNDEF, "env-api-key"},
   PRIVATE_KEY : {UNDEF, "0xEnvKey"}]

\* environments that name the test network and an API key
EnvsTestnet ==
  {e \in Envs : e.DBTC_CHAIN_MODE = "testnet" /\ e.DBTC_API_KEY # UNDEF}

\* environments without PRIVATE_KEY that name an API key and a valid chain
\* mode or none
EnvsNoKey ==
  {e \in Envs : /\ e.PRIVATE_KEY = UNDEF
                /\ e.DBTC_API_KEY # UNDEF
                /\ e.DBTC_CHAIN_MODE # "devnet"}

\* environments without PRIVATE_KEY
EnvsAddresses == {e \in Envs : e.PRIVATE_KEY = UNDEF}

ConfigInputs ==
  [chainMode : {UNDEF, "testnet", "mainnet", "devnet"},
   apiKey : {UNDEF, "", "api-key"},
   privateKey : {UNDEF, "0xCfgKey"}]

\* the configurations that configure accepts
ValidConfigs ==
  {c \in ConfigInputs : c.chainMode \in ChainModes /\ Truthy(c.apiKey)}

AddressInputs ==
  [dbtc : {UNDEF, "", "0xCustomDBTC"},
   budgetProposal : {UNDEF, "0xCustomBP"}]

\* a custom DBTC address alone
DbtcOnly == {a \in AddressInputs : Truthy(a.dbtc) /\ a.budgetProposal = UNDEF}

ChainModeArgs == {UNDEF, "testnet", "mainnet", "devnet"}

PrivateKeyArgs == {UNDEF, "0xArgKey"}

DbtcAddressArgs == {UNDEF, "", "0xArgDBTC"}

\* a string of n characters, all of code point cp
Str(n, cp) == [i \in 1..n |-> cp]

ValidData ==
  [prexcFpapId |-> Str(9, 97), uacsObjCode |-> Str(6, 97), amount |-> 1000000]

\* proposal data: short identifiers, an identifier of 32 characters, and an
\* identifier of 16 two-byte characters
ProposalDatas ==
  {ValidData,
   [ValidData EXCEPT !.prexcFpapId = Str(32, 97)],
   [ValidData EXCEPT !.uacsObjCode = Str(16, 233)]}

NoData == [prexcFpapId |-> <<>>, uacsObjCode |-> <<>>, amount |-> 0]

\* the arguments of wrapper f that the wrapper's own code looks at
WrapperArgs(f) ==
  [privateKey : IF Wrapper(f).kind = "write" THEN PrivateKeyArgs ELSE {UNDEF},
   dbtcAddress : IF Wrapper(f).module = "dbtc" THEN DbtcAddressArgs ELSE {UNDEF},
   address : CASE Wrapper(f).module = "dbtc" -> {UNDEF}
               [] Wrapper(f).module = "department" -> {"0xDepartment"}
               [] Wrapper(f).module = "agency" -> {"0xAgency"},
   data : IF Wrapper(f).prepares THEN ProposalDatas ELSE {NoData}]

\* the calls that leave the DBTC address to the address book and pass
\* proposal data that converts
PlainArgs(f) ==
  {a \in WrapperArgs(f) : a.dbtcAddress = UNDEF /\ a.data \in {ValidData, NoData}}

LogArgs ==
  {[named |-> "0xNew1", second |-> "0xNew1"],
   [named |-> UNDEF, second |-> "0xNew2"]}

\* the logs a receipt of a call on interface abi may hold: a log of no event
\* of the interface, a log of one of its events whose data does not decode,
\* and well-formed logs of its events
LogsOf(abi) ==
  {[topic |-> "Unknown", wellFormed |-> TRUE, named |-> UNDEF, second |-> UNDEF]}
    \cup {[topic |-> t, wellFormed |-> FALSE, named |-> UNDEF, second |-> UNDEF] :
            t \in ABI_EVENTS[abi]}
    \cup {[topic |-> t, wellFormed |-> TRUE, named |-> x.named,
           second |-> x.second] : t \in ABI_EVENTS[abi], x \in LogArgs}

SeqsUpTo(S, n) == UNION {[1..k -> S] : k \in 0..n}

Receipt(status, logs) ==
  [hash |-> "0xTxHash", blockNumber |-> 1, gasUsed |-> 21000,
   status |-> status, logs |-> logs]

\* how tx.wait() may settle
WaitOutcomes(abi, n) ==
  {[rejected |-> TRUE, receipt |-> Null], [rejected |-> FALSE, receipt |-> Null],
   [rejected |-> FALSE, receipt |-> Receipt(0, <<>>)]}
    \cup {[rejected |-> FALSE, receipt |-> Receipt(1, l)] :
            l \in SeqsUpTo(LogsOf(abi), n)}

PhaseInputs == {0, 6, 7}

StatusInputs == {0, 7, 8}

Bytes32Inputs ==
  {encodeBytes32String(Str(9, 97)).val, encodeBytes32String(Str(3, 233)).val,
   Str(Bytes32Len, 97)}

StringInputs == {Str(9, 97), Str(32, 97), Str(16, 233)}

\* the longest of the strings converted that are enumerated in full
MaxShort == 3

\* the characters of the strings converted: NUL, 'a' (one UTF-8 byte) and
\* 'e' with an acute accent (two UTF-8 bytes)
Chars == {0, 97, 233}

\* the strings handed to stringToBytes32: every string of up to MaxShort
\* characters, and strings around the limit in characters and in bytes
ConvertedStrings ==
  SeqsUpTo(Chars, MaxShort)
    \cup {Str(n, 97) : n \in {30, 31, 32, 33}}
    \cup {Str(n, 233) : n \in {15, 16, 31, 32}}
    \cup {Str(29, 97) \o <<233>>, Str(30, 97) \o <<233>>, Str(30, 97) \o <<0>>}

-----------------------------------------------------------------------------
(* The state machine *)

NoOp ==
  [fn |-> "none", args |-> Null, pc |-> "done", err |-> NoErr,
   contract |-> Null, steps |-> <<>>, ret |-> Null,
   envRead |-> FALSE, signerCalled |-> FALSE]

\* the state when the modules are loaded, in a process whose environment is
\* one of E
InitIn(E) ==
  /\ config = Null
  /\ provider = Null
  /\ addresses = CONTRACT_ADDRESSES
  /\ env \in E
  /\ op = NoOp

\* no wrapper is waiting for a promise
Idle == op.pc \in {"done", "threw"}

\* a synchronous function ran to its end with outcome r
Sync(fn, args, r) ==
  /\ config' = r.S.config
  /\ provider' = r.S.provider
  /\ addresses' = r.S.addresses
  /\ op' = [fn |-> fn, args |-> args,
            pc |-> IF r.err = NoErr THEN "done" ELSE "threw",
            err |-> r.err, contract |-> Null, steps |-> <<>>,
            ret |-> IF r.err = NoErr THEN [value |-> r.val] ELSE Null,
            envRead |-> r.S.envRead, signerCalled |-> r.S.signerCalled]
  /\ UNCHANGED env

Here == Ctx(config, provider, addresses)

\* a function that touches no module state, with outcome r = [err, val]
Pure(r) == [err |-> r.err, S |-> Here, val |-> r.val]

Call_configure(c) == Idle /\ Sync("configure", c, configure(Here, c))

Call_getConfig == Idle /\ Sync("getConfig", Null, getConfig(Here))

Call_getChainMode == Idle /\ Sync("getChainMode", Null, getChainMode(Here))

Call_isTestnet == Idle /\ Sync("isTestnet", Null, isTestnet(Here))

Call_isMainnet == Idle /\ Sync("isMainnet", Null, isMainnet(Here))

Call_setContractAddresses(a, m) ==
  Idle /\ Sync("setContractAddresses", [addresses |-> a, chainMode |-> m],
               setContractAddresses(Here, a, m))

Call_getSigner(k) ==
  Idle /\ Sync("getSigner", [privateKey |-> k], getSigner(Here, k))

Call_getProvider == Idle /\ Sync("getProvider", Null, getProvider(Here))

Call_getContractAddresses ==
  Idle /\ Sync("getContractAddresses", Null, getContractAddresses(Here))

Call_getPhaseName(phase) ==
  Idle /\ Sync("getPhaseName", [phase |-> phase],
               Pure([err |-> NoErr, val |-> getPhaseName(phase)]))

Call_getStatusName(status) ==
  Idle /\ Sync("getStatusName", [status |-> status],
               Pure([err |-> NoErr, val |-> getStatusName(status)]))

Call_stringToBytes32(str) ==
  Idle /\ Sync("stringToBytes32", [str |-> str], Pure(stringToBytes32(str)))

Call_bytes32ToString(b) ==
  Idle /\ Sync("bytes32ToString", [bytes32 |-> b], Pure(bytes32ToString(b)))

\* wrapper f ran its synchronous prefix with outcome r
Began(f, a, r) ==
  /\ config' = r.S.config
  /\ provider' = r.S.provider
  /\ addresses' = r.S.addresses
  /\ op' = [fn |-> f, args |-> a,
            pc |-> IF r.err # NoErr THEN "threw"
                   ELSE IF Wrapper(f).kind = "write" THEN "awaitTx"
                   ELSE "awaitQuery",
            err |-> r.err,
            contract |-> r.val,
            steps |-> IF r.err # NoErr THEN <<>>
                      ELSE IF Wrapper(f).kind = "write" THEN <<"submit">>
                      ELSE <<"query">>,
            ret |-> Null,
            envRead |-> r.S.envRead, signerCalled |-> r.S.signerCalled]
  /\ UNCHANGED env

\* A wrapper is called: its synchronous prefix runs, and unless that throws
\* the contract method has been invoked and the wrapper awaits it.
Begin(f, a) ==
  /\ Idle
  /\ IF Wrapper(f).kind = "write" THEN Began(f, a, beginWrite(Here, f, a))
     ELSE Began(f, a, beginRead(Here, f, a))

\* mutant of SubmitResolves: the wrapper returns the transaction response
\* without waiting for the receipt
SubmitResolves_NoWait ==
  /\ op.pc = "awaitTx"
  /\ op' = [op EXCEPT !.pc = "done",
                      !.steps = @ \o <<"submitted", "return">>,
                      !.ret = [result |-> Null, scanned |-> FALSE,
                               extracted |-> UNDEF, consulted |-> 0]]
  /\ UNCHANGED <<config, provider, addresses, env>>

\* `await contract.method(...)` resolves with the transaction response
SubmitResolves ==
  /\ op.pc = "awaitTx"
  /\ op' = [op EXCEPT !.pc = "awaitReceipt",
                      !.steps = Append(@, "submitted")]
  /\ UNCHANGED <<config, provider, addresses, env>>

\* `await contract.method(...)` rejects: the wrapper throws
SubmitRejects ==
  /\ op.pc = "awaitTx"
  /\ op' = [op EXCEPT !.pc = "threw", !.err = ErrSubmit,
                      !.steps = Append(@, "submitRejected")]
  /\ UNCHANGED <<config, provider, addresses, env>>

\* what tx.wait() gave
Got(w) ==
  IF w.rejected THEN "waitRejected"
  ELSE IF w.receipt = Null THEN "noReceipt"
  ELSE "receipt"

\* the wrapper after waitForTransaction ended with outcome r
Waited(w, r) ==
  IF r.err # NoErr
    THEN op' = [op EXCEPT !.pc = "threw", !.err = r.err,
                          !.steps = Append(@, Got(w))]
  ELSE op' = [op EXCEPT !.pc = "done",
                        !.steps = @ \o <<Got(w)>>
                           \o (IF Wrapper(op.fn).event # "none"
                                 THEN <<"scan">> ELSE <<>>)
                           \o <<"return">>,
                        !.ret = finishWrite(op.fn, op.contract, r.val)]

\* `await waitForTransaction(tx)` settles, with a receipt of at most n logs
\* when it has one; the rest of the wrapper (the log scan and the return)
\* is synchronous
WaitSettles(n) ==
  /\ op.pc = "awaitReceipt"
  /\ \E w \in WaitOutcomes(op.contract.abi, n) : Waited(w, waitForTransaction(w))
  /\ UNCHANGED <<config, provider, addresses, env>>

\* the awaited contract query resolves
QueryResolves ==
  /\ op.pc = "awaitQuery"
  /\ op' = [op EXCEPT !.pc = "done", !.steps = @ \o <<"answer", "return">>,
                      !.ret = [value |-> "answer"]]
  /\ UNCHANGED <<config, provider, addresses, env>>

\* the awaited contract query rejects: the wrapper throws
QueryRejects ==
  /\ op.pc = "awaitQuery"
  /\ op' = [op EXCEPT !.pc = "threw", !.err = ErrQuery,
                      !.steps = Append(@, "queryRejected")]
  /\ UNCHANGED <<config, provider, addresses, env>>

-----------------------------------------------------------------------------
(* Specifications *)

Settles(n) ==
  \/ SubmitResolves
  \/ SubmitRejects
  \/ WaitSettles(n)

\* Every function that index.ts exports, called by a process whose
\* environment names the test network.
Init == InitIn(EnvsTestnet)

Next ==
  \/ \E c \in ValidConfigs : Call_configure(c)
  \/ Call_getConfig
  \/ Call_getChainMode
  \/ Call_isTestnet
  \/ Call_isMainnet
  \/ \E a \in DbtcOnly : Call_setContractAddresses(a, UNDEF)
  \/ \E phase \in PhaseInputs : Call_getPhaseName(phase)
  \/ \E status \in StatusInputs : Call_getStatusName(status)
  \/ \E str \in StringInputs : Call_stringToBytes32(str)
  \/ \E b \in Bytes32Inputs : Call_bytes32ToString(b)
  \/ \E f \in WrapperNames : \E a \in PlainArgs(f) : Begin(f, a)
  \/ Settles(MaxLogsSDK)
  \/ QueryResolves
  \/ QueryRejects

Spec == Init /\ [][Next]_vars

\* The state-changing wrappers and their receipts.
InitWrite == InitIn(EnvsTestnet)

NextWrite ==
  \/ \E f \in WriteNames : \E a \in PlainArgs(f) : Begin(f, a)
  \/ Settles(MaxLogs)

SpecWrite == InitWrite /\ [][NextWrite]_vars

\* The functions of config.ts that read or write _config and _provider, in
\* every environment.
InitConfig == InitIn(Envs)

NextConfig ==
  \/ \E c \in ConfigInputs : Call_configure(c)
  \/ Call_getConfig
  \/ Call_getChainMode
  \/ Call_isTestnet
  \/ Call_isMainnet
  \/ \E k \in PrivateKeyArgs : Call_getSigner(k)
  \/ Call_getProvider

SpecConfig == InitConfig /\ [][NextConfig]_vars

\* The DBTC wrappers and the DBTC entry of the address book.
InitDBTC == InitIn(EnvsNoKey)

NextDBTC ==
  \/ \E c \in ValidConfigs : Call_configure(c)
  \/ \E a \in DbtcOnly, m \in {UNDEF} \cup ChainModes :
       Call_setContractAddresses(a, m)
  \/ \E f \in DOMAIN DBTC_FUNCTIONS : \E a \in WrapperArgs(f) : Begin(f, a)
  \/ Settles(MaxLogsSDK)
  \/ QueryResolves
  \/ QueryRejects

SpecDBTC == InitDBTC /\ [][NextDBTC]_vars

\* The address book and the configuration it is read under.
InitAddresses == InitIn(EnvsAddresses)

NextAddresses ==
  \/ \E c \in ValidConfigs : Call_configure(c)
  \/ \E a \in AddressInputs, m \in ChainModeArgs : Call_setContractAddresses(a, m)
  \/ Call_getContractAddresses
  \/ Call_getProvider

SpecAddresses == InitAddresses /\ [][NextAddresses]_vars

\* The bytes32 conversions: strings are converted, and what stringToBytes32
\* returned is converted back.
InitBytes32 == InitIn(EnvsTestnet)

NextBytes32 ==
  \/ \E str \in ConvertedStrings : Call_stringToBytes32(str)
  \/ /\ op.fn = "stringToBytes32"
     /\ op.pc = "done"
     /\ Call_bytes32ToString(op.ret.value)
  \/ \E b \in Bytes32Inputs : Call_bytes32ToString(b)

SpecBytes32 == InitBytes32 /\ [][NextBytes32]_vars

-----------------------------------------------------------------------------
(* Properties *)

Has(seq, x) == \E i \in 1..Len(seq) : seq[i] = x

IsPrefix(s, t) == Len(s) <= Len(t) /\ SubSeq(t, 1, Len(s)) = s

\* log i of the receipt decodes under the event the wrapper names
Decodes(f, logs, i) ==
  /\ logs[i].topic = Wrapper(f).event
  /\ logs[i].topic \in ABI_EVENTS[AbiOf(f)]
  /\ logs[i].wellFormed

\* the positions of the logs that decode under the wrapper's event
Matching(f, logs) == {i \in 1..Len(logs) : Decodes(f, logs, i)}

FirstMatch(f, logs) ==
  CHOOSE i \in Matching(f, logs) : \A j \in Matching(f, logs) : i <= j

\* C1: when an event-extracting wrapper gets a receipt it returns, whatever
\* the logs are; the value it returns is the one extracted from the first
\* log, in receipt order, that decodes under the wrapper's event, the logs
\* before it (a decode that throws, no event, another event) having been
\* passed over and no log after it having been parsed; with no such log the
\* value is the default and every log was parsed.
C1_FirstMatchingLog ==
  (op.fn \in EventNames /\ Has(op.steps, "receipt")) =>
    /\ op.pc = "done"
    /\ IF Matching(op.fn, op.ret.result.logs) = {}
         THEN /\ op.ret.extracted = defaultValue(Wrapper(op.fn).event)
              /\ op.ret.consulted = Len(op.ret.result.logs)
       ELSE /\ op.ret.extracted =
                 extractArg(Wrapper(op.fn).event,
                            op.ret.result.logs[FirstMatch(op.fn, op.ret.result.logs)])
            /\ op.ret.consulted = FirstMatch(op.fn, op.ret.result.logs)

\* a returned scan that passed over a log whose decode throws and took the
\* value of the log after it
C1_Witness ==
  /\ op.fn = "addDepartment"
  /\ op.pc = "done"
  /\ Len(op.ret.result.logs) = 2
  /\ op.ret.result.logs[1].topic = "DepartmentAdded"
  /\ ~op.ret.result.logs[1].wellFormed
  /\ Decodes(op.fn, op.ret.result.logs, 2)
  /\ op.ret.extracted = "0xNew2"
  /\ op.ret.consulted = 2

\* the steps of a state-changing wrapper that returns
FullSteps(f) ==
  IF Wrapper(f).event # "none"
    THEN <<"submit", "submitted", "receipt", "scan", "return">>
  ELSE <<"submit", "submitted", "receipt", "return">>

Failures == {"submitRejected", "waitRejected", "noReceipt"}

\* C2: a state-changing wrapper submits, then waits for the receipt, then
\* (where it extracts an event) scans the logs, then returns; it has a
\* result only when the receipt was obtained, and after a rejected
\* submission, a rejected wait or a missing receipt it throws without a
\* scan, a parsed log or a result.
C2_SubmitWaitScan ==
  op.fn \in WriteNames =>
    /\ \/ IsPrefix(op.steps, FullSteps(op.fn))
       \/ /\ Len(op.steps) \in {2, 3}
          /\ IsPrefix(SubSeq(op.steps, 1, Len(op.steps) - 1), FullSteps(op.fn))
          /\ op.steps[Len(op.steps)] \in Failures
    /\ (op.pc = "done") = (op.steps = FullSteps(op.fn))
    /\ (op.ret # Null) = (op.pc = "done")
    /\ op.ret # Null => Has(op.steps, "receipt") /\ op.ret.result.logs \in Seq(LogsOf(AbiOf(op.fn)))
    /\ (\E x \in Failures : Has(op.steps, x)) =>
         /\ op.pc = "threw"
         /\ op.ret = Null
         /\ ~Has(op.steps, "scan")
         /\ ~Has(op.steps, "return")

\* a wrapper that threw because the wait gave no receipt
C2_Witness ==
  /\ op.fn = "startBudgetCall"
  /\ op.steps = <<"submit", "submitted", "noReceipt">>
  /\ op.err = ErrNoReceipt
  /\ op.ret = Null

\* the functions index.ts exports
IndexExports ==
  {"configure", "getConfig", "getChainMode", "isTestnet", "isMainnet",
   "setContractAddresses", "getPhaseName", "getStatusName",
   "stringToBytes32", "bytes32ToString"} \cup WrapperNames

\* C3 as stated: every exported function that returns has submitted a
\* transaction and waited for its receipt, or has queried a contract.
C3_Original ==
  (op.fn \in IndexExports /\ op.pc = "done") =>
    \/ Has(op.steps, "submit") /\ Has(op.steps, "receipt")
    \/ Has(op.steps, "query")

\* C3, amended: every function exported by the agency, department and dbtc
\* modules that returns has submitted a transaction through a signer and
\* waited for its receipt, or has queried a contract and got the answer
\* without submitting; the other exported functions (configuration, name
\* lookup, bytes32 conversion) contact no contract.
C3_WrappersSubmitOrQuery ==
  /\ op.fn \in IndexExports \cup {"none"}
  /\ (op.fn \in WriteNames /\ op.pc = "done") =>
       /\ Has(op.steps, "submit")
       /\ Has(op.steps, "receipt")
       /\ IsSigner(op.contract.runner)
  /\ (op.fn \in ReadNames /\ op.pc = "done") =>
       /\ Has(op.steps, "query")
       /\ Has(op.steps, "answer")
       /\ ~Has(op.steps, "submit")
  /\ op.fn \in IndexExports \ WrapperNames =>
       op.steps = <<>> /\ op.contract = Null

\* configure returned, having contacted no contract
C3_Witness ==
  /\ op.fn = "configure"
  /\ op.pc = "done"
  /\ op.steps = <<>>
  /\ config # Null

\* configure rejects the configuration c
Rejected(c) ==
  \/ c.chainMode \in {UNDEF, ""}
  \/ c.chainMode \notin {"testnet", "mainnet"}
  \/ c.apiKey \in {UNDEF, ""}

\* C4: configure throws when chainMode is missing or is neither 'testnet'
\* nor 'mainnet' and when apiKey is missing or empty; when it throws,
\* _config and _provider are what they were; when it returns, _config holds
\* the chainMode, apiKey and privateKey passed.
C4_ConfigureValidates ==
  [][op'.fn = "configure" =>
       /\ Rejected(op'.args) => op'.pc = "threw"
       /\ op'.pc = "threw" => config' = config /\ provider' = provider
       /\ op'.pc = "done" =>
            config' = [chainMode |-> op'.args.chainMode,
                       apiKey |-> op'.args.apiKey,
                       privateKey |-> op'.args.privateKey]]_vars

\* configure threw on an empty apiKey and left the stored configuration and
\* the cached provider in place
C4_Witness ==
  /\ op.fn = "configure"
  /\ op.err = ErrApiKey
  /\ op.args.chainMode = "mainnet"
  /\ config # Null
  /\ config.chainMode = "testnet"
  /\ provider # Null

\* the exported functions that only read the configuration
ConfigReaders == {"getConfig", "getChainMode", "isTestnet", "isMainnet"}

\* C5 as stated: unconfigured, getConfig (and every function that goes
\* through it) configures from the environment when DBTC_CHAIN_MODE and
\* DBTC_API_KEY are both set, and otherwise throws 'SDK not configured' and
\* stays unconfigured; configured, it returns the stored configuration
\* without reading the environment.
C5_Original ==
  [][op'.fn \in ConfigReaders =>
       IF config # Null
         THEN /\ op'.pc = "done"
              /\ ~op'.envRead
              /\ config' = config
              /\ op'.fn = "getConfig" => op'.ret.value = config
       ELSE IF Truthy(env.DBTC_CHAIN_MODE) /\ Truthy(env.DBTC_API_KEY)
         THEN /\ op'.pc = "done"
              /\ config' = EnvConfig
              /\ op'.fn = "getConfig" => op'.ret.value = EnvConfig
       ELSE /\ op'.err = ErrNotConfigured
            /\ config' = Null]_vars

\* C5, amended: unconfigured, getConfig configures from the environment when
\* DBTC_API_KEY is set and DBTC_CHAIN_MODE is 'testnet' or 'mainnet', taking
\* PRIVATE_KEY as the default key; when DBTC_API_KEY is set and
\* DBTC_CHAIN_MODE is set to anything else it throws "chainMode must be
\* 'testnet' or 'mainnet'" and stays unconfigured; otherwise it throws 'SDK
\* not configured' and stays unconfigured; configured, it returns the stored
\* configuration without reading the environment.
C5_AutoConfigure ==
  [][op'.fn \in ConfigReaders =>
       IF config # Null
         THEN /\ op'.pc = "done"
              /\ ~op'.envRead
              /\ config' = config
              /\ op'.fn = "getConfig" => op'.ret.value = config
       ELSE IF Truthy(env.DBTC_CHAIN_MODE) /\ Truthy(env.DBTC_API_KEY)
         THEN IF env.DBTC_CHAIN_MODE \in {"testnet", "mainnet"}
                THEN /\ op'.pc = "done"
                     /\ op'.envRead
                     /\ config' = EnvConfig
                     /\ op'.fn = "getConfig" => op'.ret.value = EnvConfig
              ELSE /\ op'.err = ErrChainMode
                   /\ config' = Null
       ELSE /\ op'.err = ErrNotConfigured
            /\ config' = Null]_vars

\* getConfig configured the SDK from the environment, PRIVATE_KEY included
C5_Witness ==
  /\ op.fn = "getConfig"
  /\ op.pc = "done"
  /\ op.envRead
  /\ config = EnvConfig
  /\ config.privateKey = "0xEnvKey"

\* C6: a state-changing wrapper hands its privateKey argument to getSigner,
\* and the contract it calls is run by a signer whose key is that argument
\* when one is passed (non-empty), whatever the configured default key is,
\* and the configured default key only when none is passed.
C6_ArgumentKeyWins ==
  op.fn \in WriteNames =>
    /\ op.signerCalled
    /\ op.err = ErrNoPrivateKey => ~Truthy(op.args.privateKey)
    /\ op.contract # Null =>
         /\ IsSigner(op.contract.runner)
         /\ op.contract.runner.key =
              IF Truthy(op.args.privateKey) THEN op.args.privateKey
              ELSE config.privateKey

\* a wrapper signing with its argument although a default key is configured
C6_Witness ==
  /\ op.fn = "addDocumentManager"
  /\ op.contract # Null
  /\ op.args.privateKey = "0xArgKey"
  /\ config.privateKey = "0xCfgKey"
  /\ op.contract.runner.key = "0xArgKey"

\* C7 as stated: getSigner throws 'No private key provided' only when the
\* privateKey parameter, the privateKey of the configuration and the
\* PRIVATE_KEY environment variable are all absent.
C7_Original ==
  (op.fn = "getSigner" /\ op.err = ErrNoPrivateKey) =>
    /\ ~Truthy(op.args.privateKey)
    /\ config = Null \/ ~Truthy(config.privateKey)
    /\ ~Truthy(env.PRIVATE_KEY)

\* C8: a read-only query wrapper never calls getSigner, never fails for want
\* of a private key, never submits a transaction, and queries through the
\* provider, also when the SDK is configured without a privateKey.
C8_ReadsNeedNoKey ==
  op.fn \in ReadNames =>
    /\ ~op.signerCalled
    /\ op.err # ErrNoPrivateKey
    /\ ~Has(op.steps, "submit")
    /\ op.contract # Null => ~IsSigner(op.contract.runner)
    /\ (config # Null /\ ~Truthy(config.privateKey)
          /\ op.err \notin {NoErr, ErrQuery}) =>
         (Wrapper(op.fn).module = "dbtc" /\ op.err = ErrDBTCAddress)

\* a query answered with no private key configured
C8_Witness ==
  /\ op.fn = "getAgencyInfo"
  /\ op.pc = "done"
  /\ config # Null
  /\ config.privateKey = UNDEF
  /\ env.PRIVATE_KEY = UNDEF

\* the call of a DBTC function named neither an address nor finds one in the
\* address book of the configured chain mode
NoDBTCAddress ==
  /\ op.fn \in DOMAIN DBTC_FUNCTIONS
  /\ ~Truthy(op.args.dbtcAddress)
  /\ config # Null
  /\ ~Truthy(addresses[config.chainMode].dbtc)

\* the contract a DBTC function calls is at the dbtcAddress argument when
\* that is given and non-empty, and otherwise at the dbtc address of the
\* configured chain mode; it calls no other
TargetsDBTC ==
  op.fn \in DOMAIN DBTC_FUNCTIONS =>
    /\ op.contract # Null =>
         op.contract.address =
           IF Truthy(op.args.dbtcAddress) THEN op.args.dbtcAddress
           ELSE addresses[config.chainMode].dbtc
    /\ op.steps # <<>> => op.contract # Null /\ Truthy(op.contract.address)

\* C9 as stated: a DBTC function targets the dbtcAddress argument, or else
\* the address book's dbtc address of the configured chain mode; with
\* neither it throws 'DBTC contract address not configured' and makes no
\* contract call.
C9_Original ==
  /\ TargetsDBTC
  /\ NoDBTCAddress =>
       /\ op.err = ErrDBTCAddress
       /\ op.steps = <<>>
       /\ op.contract = Null

\* C9, amended: as stated, except that with neither address a
\* state-changing DBTC function that has no key either (no privateKey
\* argument, no configured default key) throws 'No private key provided',
\* getSigner running before the address is looked up; every other DBTC call
\* with neither address throws 'DBTC contract address not configured'; none
\* makes a contract call.
C9_DBTCAddress ==
  /\ TargetsDBTC
  /\ NoDBTCAddress =>
       /\ op.err =
            IF /\ Wrapper(op.fn).kind = "write"
               /\ ~Truthy(op.args.privateKey)
               /\ ~Truthy(config.privateKey)
              THEN ErrNoPrivateKey
            ELSE ErrDBTCAddress
       /\ op.steps = <<>>
       /\ op.contract = Null

\* on mainnet, whose bundled address is empty, a DBTC query reaches the
\* address that setContractAddresses supplied
C9_Witness ==
  /\ op.fn = "getCurrentPhase"
  /\ op.pc = "done"
  /\ op.args.dbtcAddress = UNDEF
  /\ config.chainMode = "mainnet"
  /\ CONTRACT_ADDRESSES.mainnet.dbtc = ""
  /\ op.contract.address = "0xCustomDBTC"

\* the chain mode a setContractAddresses call is for: the one given, or the
\* configured one, or the one the environment configures
ModeFor(m) ==
  IF Truthy(m) THEN m
  ELSE IF config # Null THEN config.chainMode
  ELSE env.DBTC_CHAIN_MODE

\* the address book changes in the fields passed non-empty, for the call's
\* chain mode, when the call returns, and nowhere else
OnlyPassedFields ==
  \A md \in ChainModes : \A fld \in {"dbtc", "budgetProposal"} :
    addresses'[md][fld] =
      IF /\ op'.pc = "done"
         /\ md = ModeFor(op'.args.chainMode)
         /\ Truthy(op'.args.addresses[fld])
        THEN op'.args.addresses[fld]
      ELSE addresses[md][fld]

\* C10 as stated: setContractAddresses changes the fields passed non-empty,
\* for the chain mode given or else the configured one, and nothing else:
\* not the other fields or chain mode, not the stored configuration, not the
\* cached provider; configure leaves the address book alone.
C10_Original ==
  [][/\ op'.fn = "setContractAddresses" =>
          /\ OnlyPassedFields
          /\ config' = config
          /\ provider' = provider
     /\ op'.fn = "configure" => addresses' = addresses]_vars

\* C10, amended: as stated, except that a call without chainMode on an
\* unconfigured SDK first configures the SDK from the environment, as
\* getConfig does, so that the stored configuration becomes the
\* environment's; a call that throws changes no address.
C10_OnlyPassedFields ==
  [][/\ op'.fn = "setContractAddresses" =>
          /\ OnlyPassedFields
          /\ op'.pc = "threw" => addresses' = addresses
          /\ \/ config' = config
             \/ /\ config = Null
                /\ ~Truthy(op'.args.chainMode)
                /\ env.DBTC_CHAIN_MODE \in ChainModes
                /\ config' = EnvConfig
          /\ provider' = provider
     /\ op'.fn = "configure" => addresses' = addresses]_vars

\* the mainnet DBTC address was set while testnet is configured, and nothing
\* else changed
C10_Witness ==
  /\ op.fn = "setContractAddresses"
  /\ op.pc = "done"
  /\ op.args.chainMode = "mainnet"
  /\ config # Null
  /\ config.chainMode = "testnet"
  /\ provider # Null
  /\ addresses.mainnet = [dbtc |-> "0xCustomDBTC", budgetProposal |-> ""]
  /\ addresses.testnet = CONTRACT_ADDRESSES.testnet

\* the number of bytes of the UTF-8 encoding of a string
RECURSIVE ByteLength(_)
ByteLength(str) ==
  IF str = <<>> THEN 0
  ELSE (IF Head(str) < 128 THEN 1 ELSE 2) + ByteLength(Tail(str))

\* a string without the NUL characters at its end
RECURSIVE Trimmed(_)
Trimmed(str) ==
  IF str # <<>> /\ str[Len(str)] = 0
    THEN Trimmed(SubSeq(str, 1, Len(str) - 1))
  ELSE str

\* this step converts back what the stringToBytes32 call before it returned
ConvertsBack ==
  /\ op.fn = "stringToBytes32"
  /\ op.pc = "done"
  /\ op'.fn = "bytes32ToString"
  /\ op'.args.bytes32 = op.ret.value

=============================================================================
